---- MODULE Spec2Model ----
(***************************************************************************)
(* SteamNoodlesFeedbackSystem (src/steam_noodles.py): the review store     *)
(* (reviews_df and the CSV file behind it), add_review with its two        *)
(* service calls, and the date-windowed report.                            *)
(*                                                                         *)
(* Values.  A Python string is a sequence of chunks; a chunk is a run of   *)
(* characters that the code never looks inside of:                         *)
(*   Lit(s)   the literal characters s                                     *)
(*   Ymd(d)   the text of calendar day d written as %Y-%m-%d               *)
(*   Full(d)  the text of day d written as str(Timestamp), i.e.            *)
(*            'YYYY-MM-DD 00:00:00'                                        *)
(* Objects that are not strings are one-chunk sequences with their own     *)
(* kind: None, NaN, Timestamp(d) (always midnight of day d in this         *)
(* program) and Raises (the service call raised instead of returning).     *)
(* An instant is an integer count of ticks, TicksPerDay ticks to the day;  *)
(* tick 0 of a day is midnight.                                            *)
(***************************************************************************)
EXTENDS Integers, Sequences, FiniteSets, TLC

VARIABLES
    reviews_df,   \* self.reviews_df: the rows in memory, in order
    data_file,    \* the rows of the CSV file self.data_file (header implied)
    now,          \* the instant datetime.now() returned to the last call
    calls,        \* service calls made by this engine: classify, generate
    added,        \* rows appended to reviews_df by add_review so far
    lastOp,       \* the call that ran last, with its arguments
    ret,          \* what that call returned
    printed,      \* what that call printed
    window,       \* start_date and end_date as the last report resolved them
    filtered,     \* positions of the rows the chart of the last report drew
    summary,      \* positions of the rows its textual summary counted
    written,      \* the reviews add_review has returned, in order
    initial_len   \* how many rows the first engine started with

vars ==
    <<reviews_df, data_file, now, calls, added, lastOp, ret, printed, window, filtered,
      summary, written, initial_len>>

---------------------------------------------------------------------------
\* Bounds of the model.
TicksPerDay == 2
MaxAdds == 2

\* Program constants.
NumEntries == 10
SampleBaseDays == 30
SampleSpan == 29
DefaultDays == 7
MonthDays == 30

---------------------------------------------------------------------------
\* Strings and objects.
Lit(s) == [k |-> "lit", v |-> s, day |-> 0]
Ymd(d) == [k |-> "%Y-%m-%d", v |-> "", day |-> d]
Full(d) == [k |-> "%Y-%m-%d %H:%M:%S", v |-> "", day |-> d]
Obj(kind, d) == <<[k |-> kind, v |-> "", day |-> d]>>

None == Obj("None", 0)
NaN == Obj("NaN", 0)
Raises == Obj("raise", 0)
Timestamp(d) == Obj("Timestamp", d)

IsTimestamp(x) == Len(x) = 1 /\ x[1].k = "Timestamp"
IsStr(x) == \A i \in 1..Len(x) : x[i].k \in {"lit", "%Y-%m-%d", "%Y-%m-%d %H:%M:%S"}

IsSpace(c) == c.k = "lit" /\ c.v \in {" ", "\t", "\n"}

RECURSIVE lstrip(_)
lstrip(s) == IF s # <<>> /\ IsSpace(Head(s)) THEN lstrip(Tail(s)) ELSE s

RECURSIVE rstrip(_)
rstrip(s) ==
    IF s # <<>> /\ IsSpace(s[Len(s)]) THEN rstrip(SubSeq(s, 1, Len(s) - 1)) ELSE s

\* str.strip()
strip(s) == rstrip(lstrip(s))

\* str.lower(), on the chunks that hold upper-case letters
LowerChunk(c) ==
    IF c.k # "lit" THEN c
    ELSE IF c.v = "Positive" THEN Lit("positive")
    ELSE IF c.v = "NEGATIVE" THEN Lit("negative")
    ELSE c

lower(s) == [i \in 1..Len(s) |-> LowerChunk(s[i])]

\* instants
Midnight(d) == d * TicksPerDay
DayOf(t) == t \div TicksPerDay
days(n) == n * TicksPerDay

---------------------------------------------------------------------------
\* The CSV file.  A row of the file holds review_id as an integer and the
\* other four fields as text.

\* pandas' default na_values that a short text can be
NAValues ==
    {<<>>, <<Lit("N/A")>>, <<Lit("NA")>>, <<Lit("null")>>, <<Lit("nan")>>, <<Lit("None")>>}

\* the dtype of the date column: datetime64 unless some cell is a str
IsDatetimeColumn(df) == \A i \in 1..Len(df) : IsTimestamp(df[i].date)

\* DataFrame.to_csv on one cell: a missing value is written empty, a Timestamp
\* of a datetime64 column by date_format, of an object column by str()
to_csv_cell(x, datetime64) ==
    IF x = NaN \/ x = None THEN <<>>
    ELSE IF IsTimestamp(x)
         THEN IF datetime64 THEN <<Ymd(x[1].day)>> ELSE <<Full(x[1].day)>>
         ELSE x

to_csv(df) ==
    [i \in 1..Len(df) |->
        [review_id |-> df[i].review_id,
         text      |-> to_csv_cell(df[i].text, FALSE),
         sentiment |-> to_csv_cell(df[i].sentiment, FALSE),
         date      |-> to_csv_cell(df[i].date, IsDatetimeColumn(df)),
         response  |-> to_csv_cell(df[i].response, FALSE)]]

\* pd.read_csv on one text cell
read_csv_cell(f) == IF f \in NAValues THEN NaN ELSE f

\* pd.to_datetime(..., format='mixed', errors='coerce') on one cell
to_datetime_coerce(f) ==
    IF Len(f) = 1 /\ f[1].k \in {"%Y-%m-%d", "%Y-%m-%d %H:%M:%S"}
    THEN Timestamp(f[1].day)
    ELSE NaN

read_csv(file) ==
    [i \in 1..Len(file) |->
        [review_id |-> file[i].review_id,
         text      |-> read_csv_cell(file[i].text),
         sentiment |-> read_csv_cell(file[i].sentiment),
         date      |-> to_datetime_coerce(file[i].date),
         response  |-> read_csv_cell(file[i].response)]]

\* __init__ on an existing file: parse, coerce the dates, dropna(subset=['date'])
LoadReviews(file) == SelectSeq(read_csv(file), LAMBDA r : r.date # NaN)

\* _generate_sample_data: entry i of the sample, from the random draws of
\* that iteration (days offset, sentiment, food, service)
SampleEntry(i, draw, today) ==
    [review_id |-> i,
     text      |->
        IF draw.sentiment = "positive"
        THEN <<Lit("The "), Lit(draw.food), Lit(" was amazing! Service was "),
               Lit(draw.service), Lit(".")>>
        ELSE IF draw.sentiment = "negative"
        THEN <<Lit("Terrible "), Lit(draw.food), Lit(". The service was "),
               Lit(draw.service), Lit(".")>>
        ELSE <<Lit("The "), Lit(draw.food), Lit(" was okay. Service was fine.")>>,
     sentiment |-> <<Lit(draw.sentiment)>>,
     date      |-> <<Ymd(today - SampleBaseDays + draw.offset)>>,
     response  |-> <<Lit("Sample response to "), Lit(draw.sentiment), Lit(" review")>>]

generate_sample_data(num_entries, draws, today) ==
    [i \in 1..num_entries |-> SampleEntry(i, draws[i], today)]

\* _save_reviews when the write succeeds
save_reviews(df) == to_csv(df)

---------------------------------------------------------------------------
\* The two service calls.  A reply is Raises (the call raised: timeout,
\* service error), None (a reply without content) or the content string.

Positive == <<Lit("positive")>>
Negative == <<Lit("negative")>>
Neutral == <<Lit("neutral")>>
Sentiments == {Positive, Negative, Neutral}

\* analyze_sentiment: None has no strip(), which raises inside the try
analyze_sentiment(reply) ==
    IF reply = Raises \/ reply = None THEN Neutral
    ELSE IF strip(lower(reply)) \in Sentiments THEN strip(lower(reply))
    ELSE Neutral

analyze_sentiment_prints(reply) ==
    IF reply = Raises \/ reply = None THEN <<"Error analyzing sentiment">> ELSE <<>>

default_responses(sentiment) ==
    IF sentiment = Positive
    THEN <<Lit("Thank you for your wonderful feedback! We're delighted you enjoyed your experience.")>>
    ELSE IF sentiment = Negative
    THEN <<Lit("We sincerely apologize for your experience. Please contact us so we can make this right.")>>
    ELSE IF sentiment = Neutral
    THEN <<Lit("Thank you for your feedback. We appreciate you taking the time to share your thoughts.")>>
    ELSE <<Lit("Thank you for your feedback.")>>

generate_response(reply, sentiment) ==
    IF reply = Raises \/ reply = None THEN default_responses(sentiment)
    ELSE strip(reply)

generate_response_prints(reply) ==
    IF reply = Raises \/ reply = None THEN <<"Error generating response">> ELSE <<>>

---------------------------------------------------------------------------
\* Return values: a dict with a review, a dict with "error", None or a file name.
Returned(tag, rec, msg) == [tag |-> tag, rec |-> rec, msg |-> msg]
ErrorDict(msg) == Returned("error", <<>>, msg)
ReviewDict(r) == Returned("review", <<r>>, "")
ReturnsNone == Returned("None", <<>>, "")
Filename == Returned("filename", <<>>, "sentiment_plot_%Y%m%d_%H%M%S.png")

Op(name, arg) == [op |-> name, arg |-> arg]

\* start_date and end_date of a report; bounded is whether end_date is set,
\* ok is whether resolving them raised nothing
NoWindow == [ok |-> FALSE, start |-> 0, bounded |-> FALSE, end |-> 0]

\* pd.to_datetime(review_date, format='%Y-%m-%d', errors='raise') succeeds
IsYmd(s) == Len(s) = 1 /\ s[1].k = "%Y-%m-%d"

\* add_review, lines 120-127: the day the review is dated
ReviewDay(date, t) ==
    LET review_date == IF date # None /\ date # <<>> THEN date ELSE <<Ymd(DayOf(t))>>
    IN  IF IsYmd(review_date) THEN review_date[1].day ELSE DayOf(t)

ReviewDayPrints(date) ==
    IF date # None /\ date # <<>> /\ ~IsYmd(date)
    THEN <<"Invalid date format. Using today's date instead.">>
    ELSE <<>>

\* add_review, lines 133-139
NewReview(df, review_text, date, creply, greply, t) ==
    [review_id |-> Len(df) + 1,
     text      |-> review_text,
     sentiment |-> analyze_sentiment(creply),
     date      |-> <<Ymd(ReviewDay(date, t))>>,
     response  |-> generate_response(greply, analyze_sentiment(creply))]

\* lines 141-142: the one-row frame, its date parsed
NewRow(new_review) == [new_review EXCEPT !.date = Timestamp(new_review.date[1].day)]

\* a concat with its two frames swapped
concat_swapped(df, row) == <<row>> \o df

\* lines 144-147: pd.concat([self.reviews_df, new_df], ignore_index=True)
concat(df, row) == Append(df, row)

\* the test of line 117 without its strip()
IsEmptyText_unstripped(review_text) == review_text = <<>>

\* line 117
IsEmptyText(review_text) == strip(review_text) = <<>>

\* add_review(review_text, date) at instant t, with the replies of the two
\* services and whether the write of the file succeeds
add_review(review_text, date, creply, greply, saved, t) ==
    /\ lastOp' = Op("add_review", review_text)
    /\ window' = NoWindow
    /\ filtered' = <<>>
    /\ summary' = <<>>
    /\ now' = t
    /\ initial_len' = initial_len
    /\ IF IsEmptyText(review_text)
       THEN /\ ret' = ErrorDict("Review text cannot be empty")
            /\ printed' = <<>>
            /\ UNCHANGED <<reviews_df, data_file, calls, added, written>>
       ELSE LET new_review == NewReview(reviews_df, review_text, date, creply, greply, t)
                new_df == concat(reviews_df, NewRow(new_review))
            IN  /\ added < MaxAdds
                /\ calls' = [classify |-> calls.classify + 1,
                             generate |-> calls.generate + 1]
                /\ added' = added + 1
                /\ printed' = ReviewDayPrints(date) \o analyze_sentiment_prints(creply)
                                \o generate_response_prints(greply)
                /\ reviews_df' = new_df
                /\ IF saved
                   THEN /\ data_file' = save_reviews(new_df)
                        /\ ret' = ReviewDict(new_review)
                        /\ written' = Append(written, new_review)
                   ELSE /\ data_file' = data_file
                        /\ ret' = ErrorDict("str(e)")
                        /\ written' = written

---------------------------------------------------------------------------
\* The report.

Last7Days == <<Lit("last"), Lit(" "), Lit("7"), Lit(" "), Lit("days")>>
Last30Days == <<Lit("last"), Lit(" "), Lit("30"), Lit(" "), Lit("days")>>

\* "to" in date_range
ContainsTo(s) == \E i \in 1..Len(s) : s[i] = Lit("to")

\* str.split(sep): the parts between the occurrences of the chunk sep
RECURSIVE split(_, _)
split(s, sep) ==
    IF \E i \in 1..Len(s) : s[i] = sep
    THEN LET i == CHOOSE j \in 1..Len(s) : s[j] = sep /\ \A h \in 1..(j - 1) : s[h] # sep
         IN  <<SubSeq(s, 1, i - 1)>> \o split(SubSeq(s, i + 1, Len(s)), sep)
    ELSE <<s>>

\* str.split(): the words between runs of whitespace
words(s) == SelectSeq(split(s, Lit(" ")), LAMBDA w : w # <<>>)

\* datetime.strptime(s, "%Y-%m-%d") succeeds exactly on a date in that format
strptime_ok(s) == IsYmd(s)
strptime(s) == Midnight(s[1].day)

\* int(s) on the numbers the range expressions use
IsInt(s) == Len(s) = 1 /\ s[1] \in {Lit("7"), Lit("14"), Lit("30")}
int(s) == IF s[1] = Lit("7") THEN 7 ELSE IF s[1] = Lit("14") THEN 14 ELSE 30

\* lines 158-167: the window, or the ValueError of strptime
Window(date_range, t) ==
    IF date_range = Last7Days
    THEN [ok |-> TRUE, start |-> t - days(DefaultDays), bounded |-> FALSE, end |-> 0]
    ELSE IF date_range = Last30Days
    THEN [ok |-> TRUE, start |-> t - days(MonthDays), bounded |-> FALSE, end |-> 0]
    ELSE IF ContainsTo(date_range)
    THEN LET parts == split(date_range, Lit("to"))
         IN  IF strptime_ok(strip(parts[1])) /\ strptime_ok(strip(parts[2]))
             THEN [ok |-> TRUE, start |-> strptime(strip(parts[1])), bounded |-> TRUE,
                   end |-> strptime(strip(parts[2]))]
             ELSE NoWindow
    ELSE [ok |-> TRUE, start |-> t - days(DefaultDays), bounded |-> FALSE, end |-> 0]

\* the positions of df, in order, that satisfy keep
Positions(df, keep(_)) ==
    SelectSeq([i \in 1..Len(df) |-> i], LAMBDA i : keep(df[i]))

\* lines 169-174: comparing a str cell with a datetime raises TypeError
Comparable(df) == \A i \in 1..Len(df) : IsTimestamp(df[i].date)

InWindow(r, w) ==
    /\ Midnight(r.date[1].day) >= w.start
    /\ w.bounded => Midnight(r.date[1].day) <= w.end

\* sentiment_visualization_agent(date_range): what it returns, prints, selects
visualization(df, date_range, t) ==
    LET w == Window(date_range, t)
    IN  IF ~w.ok \/ ~Comparable(df)
        THEN [ret |-> ReturnsNone, printed |-> <<"Error generating visualization">>,
              window |-> w, filtered |-> <<>>]
        ELSE LET rows == Positions(df, LAMBDA r : InWindow(r, w))
             IN  IF rows = <<>>
                 THEN [ret |-> ReturnsNone, printed |-> <<>>, window |-> w,
                       filtered |-> <<>>]
                 ELSE [ret |-> Filename, printed |-> <<>>, window |-> w,
                       filtered |-> rows]

sentiment_visualization_agent(date_range, t) ==
    LET v == visualization(reviews_df, date_range, t)
    IN  /\ lastOp' = Op("sentiment_visualization_agent", date_range)
        /\ ret' = v.ret
        /\ printed' = v.printed
        /\ window' = v.window
        /\ filtered' = v.filtered
        /\ summary' = <<>>
        /\ now' = t
        /\ UNCHANGED <<reviews_df, data_file, calls, added, written, initial_len>>


\* _generate_sentiment_report, lines 291-299: the window of the textual
\* summary; an int() or unpacking that fails is not caught
SummaryWindow(date_range, t) ==
    IF date_range # <<>> /\ date_range[1] = Lit("last")
    THEN IF Len(words(date_range)) >= 2 /\ IsInt(words(date_range)[2])
         THEN [ok |-> TRUE, start |-> t - days(int(words(date_range)[2])),
               bounded |-> FALSE, end |-> 0]
         ELSE NoWindow
    ELSE IF ContainsTo(date_range)
    THEN LET parts == split(date_range, Lit("to"))
         IN  IF Len(parts) = 2 /\ strptime_ok(strip(parts[1])) /\ strptime_ok(strip(parts[2]))
             THEN [ok |-> TRUE, start |-> strptime(strip(parts[1])), bounded |-> TRUE,
                   end |-> strptime(strip(parts[2]))]
             ELSE NoWindow
    ELSE [ok |-> TRUE, start |-> t - days(DefaultDays), bounded |-> FALSE, end |-> 0]

\* _generate_sentiment_report with the line the user typed
generate_sentiment_report(typed, t) ==
    LET date_range == IF strip(typed) # <<>> THEN strip(typed) ELSE Last7Days
        v == visualization(reviews_df, date_range, t)
        w == SummaryWindow(date_range, t)
    IN  /\ lastOp' = Op("_generate_sentiment_report", date_range)
        /\ window' = v.window
        /\ filtered' = v.filtered
        /\ IF v.ret = Filename
           THEN IF w.ok
                THEN /\ summary' = Positions(reviews_df, LAMBDA r : InWindow(r, w))
                     /\ ret' = ReturnsNone
                     /\ printed' = v.printed \o <<"Report generated">>
                ELSE /\ summary' = <<>>
                     /\ ret' = Returned("raise", <<>>, "ValueError")
                     /\ printed' = v.printed \o <<"Report generated">>
           ELSE /\ summary' = <<>>
                /\ ret' = ReturnsNone
                /\ printed' = v.printed \o <<"Failed to generate report.">>
        /\ now' = t
        /\ UNCHANGED <<reviews_df, data_file, calls, added, written, initial_len>>

---------------------------------------------------------------------------
\* Construction.

NoCalls == [classify |-> 0, generate |-> 0]

\* the random draws of _generate_sample_data, one per entry
DrawOld == [offset |-> 0, sentiment |-> "positive", food |-> "ramen", service |-> "friendly"]
DrawNew == [offset |-> SampleSpan, sentiment |-> "negative", food |-> "sushi", service |-> "slow"]
DrawMid == [offset |-> SampleSpan - DefaultDays, sentiment |-> "neutral", food |-> "dumplings",
            service |-> "excellent"]
SampleDraws ==
    {[i \in 1..NumEntries |-> IF i % 3 = 0 THEN DrawOld
                                       ELSE IF i % 3 = 1 THEN DrawNew ELSE DrawMid]}

\* files left by earlier runs, some rows edited by hand since
BadDate == <<Lit("2024-13-40")>>
FileRow(i, date) ==
    [review_id |-> i, text |-> <<Lit("Great noodles")>>, sentiment |-> Positive,
     date |-> date, response |-> <<Lit("Thanks for visiting")>>]
HistoricalFiles ==
    {<<>>,
     <<FileRow(1, <<Ymd(-DefaultDays - 1)>>), FileRow(2, BadDate),
       FileRow(3, <<Ymd(-DefaultDays)>>)>>}

\* __init__, line 17 true: the file exists
InitLoad(file) ==
    /\ data_file = file
    /\ reviews_df = LoadReviews(file)

\* __init__, line 17 false: no file, the sample is generated and saved
InitSample(draws) ==
    /\ reviews_df = generate_sample_data(NumEntries, draws, 0)
    /\ data_file = save_reviews(reviews_df)

Init ==
    /\ now = 0
    /\ calls = NoCalls
    /\ added = 0
    /\ lastOp = Op("__init__", <<>>)
    /\ ret = ReturnsNone
    /\ printed = <<>>
    /\ window = NoWindow
    /\ filtered = <<>>
    /\ summary = <<>>
    /\ written = <<>>
    /\ \/ \E file \in HistoricalFiles : InitLoad(file)
       \/ \E draws \in SampleDraws : InitSample(draws)
    /\ initial_len = Len(reviews_df)

\* the process ends and a new engine is constructed on the file
Restart ==
    /\ reviews_df' = LoadReviews(data_file)
    /\ calls' = NoCalls
    /\ lastOp' = Op("__init__", <<>>)
    /\ ret' = ReturnsNone
    /\ printed' = <<>>
    /\ window' = NoWindow
    /\ filtered' = <<>>
    /\ summary' = <<>>
    /\ UNCHANGED <<data_file, now, added, written, initial_len>>

---------------------------------------------------------------------------
\* Inputs.
Ramen == <<Lit("The ramen was amazing!")>>
Submission(text, date, creply, greply) ==
    [text |-> text, date |-> date, creply |-> creply, greply |-> greply]

\* what a caller submits together with how the two services answer it
Submissions ==
    {Submission(<<>>, None, Raises, Raises),
     Submission(<<Lit(" "), Lit(" ")>>, <<Ymd(0)>>, <<Lit("positive")>>, <<Lit("Thank you!")>>),
     Submission(Ramen, None, <<Lit(" "), Lit("Positive")>>, <<Lit("Thank you!"), Lit("\n")>>),
     Submission(Ramen, BadDate, <<Lit(" "), Lit("Positive")>>, <<Lit("Thank you!"), Lit("\n")>>),
     Submission(Ramen, None, Raises, <<Lit(" ")>>),
     Submission(Ramen, None, <<Lit("mixed")>>, <<Lit(" ")>>),
     Submission(<<Lit("N/A")>>, <<Ymd(1)>>, <<Lit("NEGATIVE"), Lit("\n")>>, Raises)}

RangeExprs ==
    {Last7Days, Last30Days,
     <<Lit("last"), Lit(" "), Lit("14"), Lit(" "), Lit("days")>>,
     <<Ymd(-DefaultDays), Lit(" "), Lit("to"), Lit(" "), Ymd(0)>>,
     <<Ymd(-DefaultDays), Lit(" "), Lit("to"), Lit(" ")>> \o BadDate,
     <<Lit("to"), Lit("morrow")>>,
     <<Lit("all")>>}

\* lines typed at the prompt of the interactive report
TypedLines ==
    {<<>>,
     <<Lit(" "), Lit("last"), Lit(" "), Lit("14"), Lit(" "), Lit("days")>>,
     <<Ymd(-DefaultDays - 1), Lit(" "), Lit("to"), Lit(" "), Ymd(0), Lit(" ")>>}

\* the instants at which a call reads the clock: midnight and the last instant
\* of the day; the clock does not run backwards
Clock == {t \in {0, TicksPerDay - 1} : t >= now}

Next ==
    \/ \E s \in Submissions, saved \in BOOLEAN :
            add_review(s.text, s.date, s.creply, s.greply, saved, now)
    \/ \E date_range \in RangeExprs, t \in Clock :
            sentiment_visualization_agent(date_range, t)
    \/ \E typed \in TypedLines, t \in Clock : generate_sentiment_report(typed, t)
    \/ Restart

Spec == Init /\ [][Next]_vars

---------------------------------------------------------------------------
\* Properties.

WhitespaceOnly(s) == \A i \in 1..Len(s) : s[i] \in {Lit(" "), Lit("\t"), Lit("\n")}
IsPrefix(a, b) == Len(a) <= Len(b) /\ SubSeq(b, 1, Len(a)) = a
EnumTokens == {<<Lit("positive")>>, <<Lit("negative")>>, <<Lit("neutral")>>}

\* a row of the store holds what the returned review says
SameReview(row, review) ==
    /\ row.review_id = review.review_id
    /\ row.text = review.text
    /\ row.sentiment = review.sentiment
    /\ row.date = Timestamp(review.date[1].day)
    /\ row.response = review.response

AddReturnedReview == lastOp.op = "add_review" /\ ret.tag = "review"

\* C1: whenever add_review returns a record (non-empty text, whatever the two
\* services did), its sentiment is one of positive, negative, neutral, its
\* response is a non-empty string, and it is the row appended to the store.
C1_SubmitAlwaysAnswers ==
    AddReturnedReview =>
        /\ ret.rec[1].sentiment \in EnumTokens
        /\ IsStr(ret.rec[1].response)
        /\ ret.rec[1].response # <<>>
        /\ reviews_df # <<>>
        /\ SameReview(reviews_df[Len(reviews_df)], ret.rec[1])

\* C2: a call of add_review with empty or whitespace-only text returns the
\* empty-text rejection, calls neither service, and leaves the store and the
\* file as they were.
C2_EmptyTextRejected ==
    [][(lastOp'.op = "add_review" /\ WhitespaceOnly(lastOp'.arg)) =>
            /\ ret' = ErrorDict("Review text cannot be empty")
            /\ reviews_df' = reviews_df
            /\ data_file' = data_file
            /\ calls' = calls]_vars

C2_Witness ==
    /\ lastOp.op = "add_review"
    /\ lastOp.arg # <<>>
    /\ WhitespaceOnly(lastOp.arg)
    /\ ret = ErrorDict("Review text cannot be empty")
    /\ reviews_df # <<>>
    /\ data_file # <<>>
    /\ calls.classify > 0

\* C3: from an empty store, the k-th add_review that returns a record returns
\* id k; calls that return an error consume no id.
C3_IdsCountReturnedReviews ==
    (AddReturnedReview /\ initial_len = 0) => ret.rec[1].review_id = Len(written)

\* C4: the ids of the store are pairwise distinct and strictly increasing in
\* store order, also after a load that dropped rows.
C4_IdsStrictlyIncreasing ==
    \A i, j \in 1..Len(reviews_df) :
        i < j => reviews_df[i].review_id < reviews_df[j].review_id

\* C5: after N add_review calls on an empty store that all returned a record,
\* a new engine on the file holds exactly those N records, in order, each
\* with the id, text, sentiment, date and response that was returned.
C5_RoundTrip ==
    (lastOp.op = "__init__" /\ initial_len = 0 /\ Len(written) = added) =>
        /\ Len(reviews_df) = Len(written)
        /\ \A i \in 1..Len(reviews_df) : SameReview(reviews_df[i], written[i])

\* C6: on a store whose dates are timestamps, the report for "last 7 days"
\* draws exactly the rows whose calendar day lies in [today - 7, today].
C6_Last7DaysWindow ==
    (lastOp = Op("sentiment_visualization_agent", Last7Days) /\ Comparable(reviews_df)) =>
        filtered = Positions(reviews_df,
                             LAMBDA r : r.date[1].day \in (DayOf(now) - 7)..DayOf(now))

\* the two-date form "<start> to <end>"
IsTwoDateForm(s) == Len(s) = 5 /\ SubSeq(s, 2, 4) = <<Lit(" "), Lit("to"), Lit(" ")>>
IsMalformedTwoDate(s) == IsTwoDateForm(s) /\ ~(IsYmd(<<s[1]>>) /\ IsYmd(<<s[5]>>))

\* what a report returns when a well-formed window matches no record
EmptyRangeResult == visualization(<<>>, Last7Days, now).ret

\* C7: a two-date range with a malformed date is rejected: no chart, no
\* default window, and a return value other than that of an empty range.
C7_MalformedRangeRejected ==
    (lastOp.op = "sentiment_visualization_agent" /\ IsMalformedTwoDate(lastOp.arg)) =>
        /\ ret # Filename
        /\ filtered = <<>>
        /\ ~window.ok
        /\ ret # EmptyRangeResult

\* the window the three-form grammar gives a range expression at instant t
IsLastNDays(s) ==
    /\ Len(s) = 5
    /\ <<s[1], s[2], s[4], s[5]>> = <<Lit("last"), Lit(" "), Lit(" "), Lit("days")>>
    /\ IsInt(<<s[3]>>)
GrammarWindow(s, t) ==
    IF IsLastNDays(s)
    THEN [ok |-> TRUE, start |-> t - days(int(<<s[3]>>)), bounded |-> FALSE, end |-> 0]
    ELSE IF IsTwoDateForm(s)
    THEN IF IsMalformedTwoDate(s) THEN NoWindow
         ELSE [ok |-> TRUE, start |-> Midnight(s[1].day), bounded |-> TRUE,
               end |-> Midnight(s[5].day)]
    ELSE [ok |-> TRUE, start |-> t - days(7), bounded |-> FALSE, end |-> 0]

\* C8: the report resolves its range by the grammar: "last N days" starts at
\* now - N days for every N, only "<start> to <end>" is the two-date form,
\* and any other string is the default window and no error.
C8_RangeGrammar ==
    lastOp.op = "sentiment_visualization_agent" => window = GrammarWindow(lastOp.arg, now)

\* C9: when add_review returns, the file is the image of the store; a record
\* is returned only if it is in both, and an error means it is in neither.
C9_WriteThrough ==
    [][lastOp'.op = "add_review" =>
            IF ret'.tag = "review"
            THEN /\ reviews_df' # <<>>
                 /\ SameReview(reviews_df'[Len(reviews_df')], ret'.rec[1])
                 /\ data_file' = save_reviews(reviews_df')
            ELSE /\ reviews_df' = reviews_df
                 /\ data_file' = data_file]_vars

\* C10: across add_review and report calls the store only grows at its end:
\* the store before a call is a prefix of the store after it, an add_review
\* that appends adds exactly one row, and a report changes nothing.
C10_AppendOnly ==
    [][/\ lastOp'.op = "add_review" =>
            /\ IsPrefix(reviews_df, reviews_df')
            /\ Len(reviews_df') <= Len(reviews_df) + 1
            /\ ret'.tag = "review" => Len(reviews_df') = Len(reviews_df) + 1
       /\ lastOp'.op \in {"sentiment_visualization_agent", "_generate_sentiment_report"} =>
            reviews_df' = reviews_df]_vars

C10_Witness ==
    /\ AddReturnedReview
    /\ Len(reviews_df) >= 2
    /\ added >= 2
    /\ ret.rec[1].review_id = Len(reviews_df)

====
